---------------------------- MODULE Spec2Model ----------------------------
(***************************************************************************)
(* A model of the LinkedIn job scraper: the heuristic relevance filter     *)
(* (scrape.py, is_job_post), the per-cycle deduplication of scrape_posts,  *)
(* the CSV sink of save_posts_to_csv, the classification passes            *)
(* classify_jobs and classify_names with the inference client they call,   *)
(* and the run_pipeline loop of main.py with its exception handlers and    *)
(* the keyboard interrupt.                                                 *)
(*                                                                         *)
(* Text is a TLA+ string.  Three characters stand for code points the      *)
(* module's lexer does not accept:                                         *)
(*     "$"  is U+017F, LATIN SMALL LETTER LONG S                           *)
(*     "#"  is U+0130, LATIN CAPITAL LETTER I WITH DOT ABOVE               *)
(*     "^"  is U+0307, COMBINING DOT ABOVE                                 *)
(***************************************************************************)
EXTENDS Integers, Sequences, FiniteSets, TLC

VARIABLES
    pc,             \* the control point of the running operation
    content,        \* is_job_post: the argument
    result,         \* is_job_post: the value returned ("none" before the call)
    stage2,         \* is_job_post: whether the indicators were computed
    elements,       \* scrape_posts: the raw elements _find_post_elements gave
    posts,          \* the list scrape_posts returned / run_pipeline's `posts`
    scrape_error,   \* scrape_posts: whether its handler caught an exception
    store,          \* linkedin_jobs.csv: <<>> when absent, else <<its rows>>
    returned,       \* save_posts_to_csv: the frame it returned
    io_error,       \* save_posts_to_csv: whether its handler caught an exception
    save_args,      \* the batches two successive calls of the sink are given
    iteration,      \* run_pipeline: the iteration counter
    iter_status,    \* run_pipeline: what the iteration logged at its end
    idx,            \* classify_jobs: the index of the post classified next
    exc,            \* the exception propagating, "none" when there is none
    interrupted_at, \* the control point the interrupt arrived at, or "none"
    driver,         \* LinkedInJobScraper.driver: "none", "open" or "quit"
    model_ready,    \* OllamaModelSetup: whether `ollama pull` succeeded
    login_ok,       \* what login() returned
    nav_ok,         \* what navigate_to_search() returned
    saves,          \* run_pipeline: the calls of save_posts_to_csv the
                    \* iteration has made
    args,           \* the arguments of the call of classify_jobs,
                    \* classify_names or inference under study
    ret,            \* what that call returned: <<>> before it returns,
                    \* <<value>> after
    calls,          \* the calls of inference made so far, in order, each
                    \* with what it was given and what came of it
    slept,          \* how many times time.sleep(10) of a pass has run
    plan            \* the classification passes still to run, in order

filterVars == <<content, result, stage2>>
scrapeVars == <<elements, posts, scrape_error>>
sinkVars == <<store, returned, io_error>>
sessionVars == <<driver, model_ready, login_ok, nav_ok>>
loopVars == <<iteration, iter_status, idx, exc, interrupted_at, saves>>
callVars == <<args, ret, calls, slept, plan>>

-----------------------------------------------------------------------------
(* Characters and strings *)

\* the i-th character of s, "" outside the string
Char(s, i) == IF 1 <= i /\ i <= Len(s) THEN SubSeq(s, i, i) ELSE ""

UPPER == "ABCDEFGHIJKLMNOPQRSTUVWXYZ"
LOWER == "abcdefghijklmnopqrstuvwxyz"

\* the ASCII upper-case letters, each with its lower-case letter
ASCII_LOWER ==
    LET ups == { Char(UPPER, i) : i \in 1..Len(UPPER) } IN
    [ c \in ups |->
        Char(LOWER, CHOOSE i \in 1..Len(UPPER) : Char(UPPER, i) = c) ]

IsUpper(c) == c \in DOMAIN ASCII_LOWER

\* str.lower() on one character; U+0130 lowers to "i" + U+0307, U+017F to itself
LowerChar(c) ==
    IF IsUpper(c) THEN ASCII_LOWER[c]
    ELSE IF c = "#" THEN "i^"
    ELSE c

RECURSIVE LowerFrom(_, _)
LowerFrom(s, i) ==
    IF i > Len(s) THEN "" ELSE LowerChar(Char(s, i)) \o LowerFrom(s, i + 1)

\* str.lower()
StrLower(s) == LowerFrom(s, 1)

\* the ASCII lower-case letters, each with its upper-case letter
ASCII_UPPER ==
    LET lows == { Char(LOWER, i) : i \in 1..Len(LOWER) } IN
    [ c \in lows |->
        Char(UPPER, CHOOSE i \in 1..Len(LOWER) : Char(LOWER, i) = c) ]

\* str.upper() on one character; U+017F raises to "S", U+0130 to itself
UpperChar(c) ==
    IF c \in DOMAIN ASCII_UPPER THEN ASCII_UPPER[c]
    ELSE IF c = "$" THEN "S"
    ELSE c

RECURSIVE UpperFrom(_, _)
UpperFrom(s, i) ==
    IF i > Len(s) THEN "" ELSE UpperChar(Char(s, i)) \o UpperFrom(s, i + 1)

\* str.upper()
StrUpper(s) == UpperFrom(s, 1)

\* re.IGNORECASE on one character of the subject against a lower-case literal
\* of the pattern: the simple lower-case mapping plus sre's equivalences
\* (U+017F matches "s", U+0130 matches "i")
FoldChar(c) ==
    IF IsUpper(c) THEN ASCII_LOWER[c]
    ELSE IF c = "$" THEN "s"
    ELSE IF c = "#" THEN "i"
    ELSE c

RECURSIVE FoldFrom(_, _)
FoldFrom(s, i) ==
    IF i > Len(s) THEN "" ELSE FoldChar(Char(s, i)) \o FoldFrom(s, i + 1)

\* the subject as re.IGNORECASE compares it with lower-case literals
StrFold(s) == FoldFrom(s, 1)

StartsAt(s, i, w) ==
    /\ i >= 1
    /\ i + Len(w) - 1 <= Len(s)
    /\ SubSeq(s, i, i + Len(w) - 1) = w

\* Python's `w in s`
Contains(s, w) == \E i \in 1..(Len(s) + 1) : StartsAt(s, i, w)

IsDigit(c) == c \in {"0", "1", "2", "3", "4", "5", "6", "7", "8", "9"}
IsSpace(c) == c \in {" ", "\n", "\t"}

-----------------------------------------------------------------------------
(* settings.py *)

JOB_KEYWORDS ==
    << "hiring", "opening", "opportunity", "position", "job", "career",
       "vacancy", "recruitment", "apply", "experience required",
       "skills required", "role", "responsibilities", "qualifications",
       "immediate joining", "urgent hiring", "job description" >>

-----------------------------------------------------------------------------
(* scrape.py: the heuristic relevance filter *)

\* self.job_pattern.search(content): the alternation of the keywords,
\* compiled with re.IGNORECASE
job_pattern_search(c) ==
    LET s == StrFold(c) IN
    \E k \in 1..Len(JOB_KEYWORDS) : Contains(s, JOB_KEYWORDS[k])

\* r"requirements?|qualifications?"
has_requirements(c) ==
    LET s == StrFold(c) IN
    Contains(s, "requirement") \/ Contains(s, "qualification")

\* \s*years? starting at position i of the folded text
YearsAfterSpaces(s, i) ==
    \E l \in i..Len(s) :
        /\ \A m \in i..(l - 1) : IsSpace(Char(s, m))
        /\ StartsAt(s, l, "year")

\* r"\d+\+?\s*years?|years? of experience"
has_experience(c) ==
    LET s == StrFold(c) IN
    \/ \E i \in 1..Len(s) :
          /\ IsDigit(Char(s, i))
          /\ \/ YearsAfterSpaces(s, i + 1)
             \/ Char(s, i + 1) = "+" /\ YearsAfterSpaces(s, i + 2)
    \/ Contains(s, "year of experience")
    \/ Contains(s, "years of experience")

\* r"apply|send|email|dm|interested|opportunity"
has_apply_action(c) ==
    LET s == StrFold(c) IN
    \E w \in {"apply", "send", "email", "dm", "interested", "opportunity"} :
        Contains(s, w)

B2N(b) == IF b THEN 1 ELSE 0

\* sum([...]) of the seven indicators
indicators(c) ==
    LET content_lower == StrLower(c) IN
      B2N(has_requirements(c))
    + B2N(has_experience(c))
    + B2N(has_apply_action(c))
    + B2N(Contains(content_lower, "resume"))
    + B2N(Contains(content_lower, "cv"))
    + B2N(Contains(content_lower, "position"))
    + B2N(Contains(content_lower, "role"))

\* the policy constant of `return indicators >= 2`
MIN_INDICATORS == 2

\* a variant of is_job_post_run that skips the keyword gate
is_job_post_run_nogate(c) ==
    IF c = "" THEN [ret |-> FALSE, stage2 |-> FALSE]
    ELSE [ret |-> indicators(c) >= MIN_INDICATORS, stage2 |-> TRUE]

\* a variant of is_job_post_run that accepts a single indicator
is_job_post_run_one(c) ==
    IF c = "" THEN [ret |-> FALSE, stage2 |-> FALSE]
    ELSE IF ~job_pattern_search(c) THEN [ret |-> FALSE, stage2 |-> FALSE]
    ELSE [ret |-> indicators(c) >= 1, stage2 |-> TRUE]

\* one run of is_job_post: the value returned, and whether the run got past
\* the two early returns to the indicator computation
is_job_post_run(c) ==
    IF c = "" THEN [ret |-> FALSE, stage2 |-> FALSE]
    ELSE IF ~job_pattern_search(c) THEN [ret |-> FALSE, stage2 |-> FALSE]
    ELSE [ret |-> indicators(c) >= MIN_INDICATORS, stage2 |-> TRUE]

is_job_post(c) == is_job_post_run(c).ret

\* is_relevant_post on a post record (None is modelled by the caller)
is_relevant_post(post_data) == is_job_post(StrLower(post_data.content))

-----------------------------------------------------------------------------
(* scrape.py: extraction and the scrape cycle *)

LINKEDIN_POST_BASE_URL == "https://www.linkedin.com/feed/update/"

RECURSIVE LStripFrom(_, _)
LStripFrom(s, i) ==
    IF i <= Len(s) /\ IsSpace(Char(s, i)) THEN LStripFrom(s, i + 1) ELSE i

RECURSIVE RStripFrom(_, _)
RStripFrom(s, j) ==
    IF j >= 1 /\ IsSpace(Char(s, j)) THEN RStripFrom(s, j - 1) ELSE j

\* str.strip()
Strip(s) ==
    LET i == LStripFrom(s, 1)
        j == RStripFrom(s, Len(s))
    IN IF i > j THEN "" ELSE SubSeq(s, i, j)

RECURSIVE LineEnd(_, _)
LineEnd(s, i) ==
    IF i > Len(s) \/ Char(s, i) = "\n" THEN i - 1 ELSE LineEnd(s, i + 1)

\* s.split("\n")[0]
FirstLine(s) == SubSeq(s, 1, LineEnd(s, 1))

\* A raw element is [text, title, urn, broken]: the text of its
\* span.break-words, the text of its actor title, its data-urn attribute
\* ("" when absent) and whether a lookup on it raises.
\* extract_post_details gives <<>> for None, <<record>> otherwise.
extract_post_details(post_element) ==
    IF post_element.broken THEN <<>>
    ELSE LET content_text == Strip(post_element.text)
             profile_name == Strip(FirstLine(post_element.title))
             data_urn == post_element.urn
         IN IF content_text = "" THEN <<>>
            ELSE IF data_urn = "" THEN <<>>
            ELSE << [ content |-> content_text,
                      url |-> LINKEDIN_POST_BASE_URL \o data_urn,
                      profile_name |-> profile_name ] >>

\* a variant of the loop of scrape_posts that ends at the first element whose
\* extraction gives None (`break` for `continue`)
RECURSIVE ScrapeLoopStopsOnFailure(_, _, _, _)
ScrapeLoopStopsOnFailure(els, i, processed_urls, fetched_posts) ==
    IF i > Len(els) THEN fetched_posts
    ELSE LET post_data == extract_post_details(els[i]) IN
         IF post_data = <<>> THEN fetched_posts
         ELSE IF post_data[1].url \in processed_urls
         THEN ScrapeLoopStopsOnFailure(els, i + 1, processed_urls, fetched_posts)
         ELSE ScrapeLoopStopsOnFailure(els, i + 1,
                                       processed_urls \cup {post_data[1].url},
                                       Append(fetched_posts, post_data[1]))

\* a variant of the loop of scrape_posts whose set of seen urls starts from
\* the urls of the records in the store
RECURSIVE ScrapeLoopSeenStore(_, _, _, _)
ScrapeLoopSeenStore(els, i, processed_urls, fetched_posts) ==
    LET stored == IF store = <<>> THEN {}
                  ELSE { store[1][k].url : k \in 1..Len(store[1]) }
    IN IF i > Len(els) THEN fetched_posts
       ELSE LET post_data == extract_post_details(els[i]) IN
            IF post_data = <<>> \/ post_data[1].url \in processed_urls \cup stored
            THEN ScrapeLoopSeenStore(els, i + 1, processed_urls, fetched_posts)
            ELSE ScrapeLoopSeenStore(els, i + 1,
                                     processed_urls \cup {post_data[1].url},
                                     Append(fetched_posts, post_data[1]))

\* a variant of the loop of scrape_posts that never consults processed_urls
RECURSIVE ScrapeLoopNoDedup(_, _, _, _)
ScrapeLoopNoDedup(els, i, processed_urls, fetched_posts) ==
    IF i > Len(els) THEN fetched_posts
    ELSE LET post_data == extract_post_details(els[i]) IN
         IF post_data = <<>>
         THEN ScrapeLoopNoDedup(els, i + 1, processed_urls, fetched_posts)
         ELSE ScrapeLoopNoDedup(els, i + 1,
                                processed_urls \cup {post_data[1].url},
                                Append(fetched_posts, post_data[1]))

\* the loop `for post_element in posts` of scrape_posts, from element i on
RECURSIVE ScrapeLoop(_, _, _, _)
ScrapeLoop(els, i, processed_urls, fetched_posts) ==
    IF i > Len(els) THEN fetched_posts
    ELSE LET post_data == extract_post_details(els[i]) IN
         IF post_data = <<>> \/ post_data[1].url \in processed_urls
         THEN ScrapeLoop(els, i + 1, processed_urls, fetched_posts)
         ELSE ScrapeLoop(els, i + 1,
                         processed_urls \cup {post_data[1].url},
                         Append(fetched_posts, post_data[1]))

\* scrape_posts: els are the elements _find_post_elements returns, raises
\* is whether a driver call of the cycle raises (caught: the result is [])
scrape_posts(els, raises) ==
    IF raises THEN <<>>
    ELSE IF els = <<>> THEN <<>>
    ELSE ScrapeLoop(els, 1, {}, <<>>)

-----------------------------------------------------------------------------
(* main.py: the CSV sink.  A frame is a sequence of rows, a row a record of  *)
(* cells, a cell [kind, v] with kind "str", "int", "float" or "nan".  The   *)
(* file is a sequence of rows of cell texts.                                *)

StrCell(v) == [kind |-> "str", v |-> v]
IntCell(n) == [kind |-> "int", v |-> IF n = 1 THEN "1" ELSE "0"]
NanCell == [kind |-> "nan", v |-> ""]

Columns(rows) == UNION { DOMAIN rows[i] : i \in 1..Len(rows) }

\* pd.DataFrame(posts): one row per dict, one column per key of any dict,
\* a missing value where a dict lacks the key
DataFrame(ps) ==
    [ i \in 1..Len(ps) |->
        [ k \in Columns(ps) |->
            IF k \notin DOMAIN ps[i] THEN NanCell
            ELSE IF k \in {"hiring_post", "names_classification"}
                 THEN IntCell(ps[i][k])
                 ELSE StrCell(ps[i][k]) ] ]

\* the texts pd.read_csv reads as missing values by default
NA_VALUES ==
    { "", "#N/A", "#N/A N/A", "#NA", "-1.#IND", "-1.#QNAN", "-NaN", "-nan",
      "1.#IND", "1.#QNAN", "<NA>", "N/A", "NA", "NULL", "NaN", "None", "n/a",
      "nan", "null" }

\* whether column k of the frame holds a missing value
HasNan(frame, k) == \E i \in 1..Len(frame) : frame[i][k].kind = "nan"

\* DataFrame.to_csv on one cell: a missing value is written as nothing, an
\* integer of a column that holds a missing value is a float
FormatCell(cell, float_column) ==
    IF cell.kind = "nan" THEN ""
    ELSE IF cell.kind = "int" /\ float_column THEN cell.v \o ".0"
    ELSE cell.v

\* pd.read_csv on one cell text
ParseCell(text) ==
    IF text \in NA_VALUES THEN NanCell
    ELSE IF text \in {"0", "1"} THEN [kind |-> "int", v |-> text]
    ELSE IF text \in {"0.0", "1.0"} THEN [kind |-> "float", v |-> text]
    ELSE StrCell(text)

\* df.to_csv(OUTPUT_CSV_FILENAME, index=False): the rows of the file
to_csv(frame) ==
    [ i \in 1..Len(frame) |->
        [ k \in DOMAIN frame[i] |-> FormatCell(frame[i][k], HasNan(frame, k)) ] ]

\* pd.read_csv(OUTPUT_CSV_FILENAME)
read_csv(rows) ==
    [ i \in 1..Len(rows) |-> [ k \in DOMAIN rows[i] |-> ParseCell(rows[i][k]) ] ]

\* pd.concat([df_existing, df_new], ignore_index=True): the rows of both,
\* over the columns of both
concat(df_existing, df_new) ==
    LET both == df_existing \o df_new IN
    [ i \in 1..Len(both) |->
        [ k \in Columns(both) |->
            IF k \in DOMAIN both[i] THEN both[i][k] ELSE NanCell ] ]

\* A failed write: to_csv opens the file for writing, which empties it, and
\* an error after that leaves the first `cut` rows, fewer than all.
IoOutcomes == {"ok", "read_fails", "open_fails", "write_fails"}

\* save_posts_to_csv(posts) on store st, with io the fate of its file
\* operations and cut the number of rows a failing write got out.
\* Gives the store after the call, the frame returned and whether the
\* handler ran.
save_posts_to_csv(ps, st, io, cut) ==
    IF ps = <<>> THEN [store |-> st, returned |-> <<>>, io_error |-> FALSE]
    ELSE
      LET df_new == DataFrame(ps) IN
      IF st # <<>>
      THEN  \* os.path.exists(OUTPUT_CSV_FILENAME)
        IF io = "read_fails" \/ io = "open_fails"
        THEN [store |-> st, returned |-> df_new, io_error |-> TRUE]
        ELSE
          LET df_existing == read_csv(st[1])
              df_combined == concat(df_existing, df_new)
          IN IF io = "write_fails"
             THEN [store |-> << SubSeq(to_csv(df_combined), 1, cut) >>,
                   returned |-> df_new, io_error |-> TRUE]
             ELSE [store |-> << to_csv(df_combined) >>,
                   returned |-> df_combined, io_error |-> FALSE]
      ELSE
        IF io = "open_fails"
        THEN [store |-> st, returned |-> df_new, io_error |-> TRUE]
        ELSE IF io = "write_fails"
        THEN [store |-> << SubSeq(to_csv(df_new), 1, cut) >>,
              returned |-> df_new, io_error |-> TRUE]
        ELSE [store |-> << to_csv(df_new) >>,
              returned |-> df_new, io_error |-> FALSE]

\* the cuts a failing write of ps onto st can stop at
WriteCuts(ps, st) ==
    0..((IF st = <<>> THEN 0 ELSE Len(st[1])) + Len(ps) - 1)

-----------------------------------------------------------------------------
(* ollama_setup.py and main.py: inference and the classification pass *)

PROMPT_HIRING_POST == "You will be given the content of a LinkedIn post."
PROMPT_NAMES_CLASSIFICATION ==
    "Classify the following text as an Indian name or not."

\* what the model backend does with one chat request
ModelReplies == {"classification 0", "classification 1", "malformed", "unreachable"}

\* HiringPost.model_validate_json on the reply: the classification, or
\* "invalid" when the reply does not conform to the schema
HiringPost_validate(reply) ==
    IF reply = "classification 0" THEN 0
    ELSE IF reply = "classification 1" THEN 1
    ELSE "invalid"

\* NamesClassification.model_validate_json on the reply
NamesClassification_validate(reply) ==
    IF reply = "classification 0" THEN 0
    ELSE IF reply = "classification 1" THEN 1
    ELSE "invalid"

\* An argument that may be None is <<>> for None and <<value>> otherwise.
\* `not input`, `not prompt`, `not format`: None and "" are falsy
NotArg(a) == a = <<>> \/ a[1] = ""

\* a variant of inference without the check of its arguments
inference_unchecked(input, prompt, format, reply) ==
    IF reply = "unreachable"
    THEN [raises |-> "ConnectionError", sent |-> TRUE, classification |-> 0]
    ELSE IF reply \notin {"classification 0", "classification 1"}
    THEN [raises |-> "ValidationError", sent |-> TRUE, classification |-> 0]
    ELSE [raises |-> "none", sent |-> TRUE,
          classification |-> HiringPost_validate(reply)]

\* OllamaModelSetup.inference: the exception it raises ("none" when it
\* returns), whether the messages were sent to the model with chat(), and
\* the classification of the result
inference(input, prompt, format, reply) ==
    IF NotArg(input) \/ NotArg(prompt) \/ NotArg(format)
    THEN [raises |-> "ValueError", sent |-> FALSE, classification |-> 0]
    ELSE IF reply = "unreachable"
    THEN [raises |-> "ConnectionError", sent |-> TRUE, classification |-> 0]
    ELSE IF reply \notin {"classification 0", "classification 1"}
    THEN [raises |-> "ValidationError", sent |-> TRUE, classification |-> 0]
    ELSE [raises |-> "none", sent |-> TRUE,
          classification |-> IF format[1] = "HiringPost"
                             THEN HiringPost_validate(reply)
                             ELSE NamesClassification_validate(reply)]

\* a variant of the assignment that stores the truth value of the result
\* object, which is always true, in place of its classification
SetFieldTruthy(post, key, value) ==
    [ k \in DOMAIN post \cup {key} |-> IF k = key THEN 1 ELSE post[k] ]

\* posts[index]["hiring_post"] = result.classification
SetField(post, key, value) ==
    [ k \in DOMAIN post \cup {key} |-> IF k = key THEN value ELSE post[k] ]

\* a variant of `if not posts` that tests for None alone
NotPostsNoneOnly(a) == a = <<>>

\* `if not posts`, on an argument that may be None: None and [] are falsy
NotPosts(a) == a = <<>> \/ a[1] = <<>>

\* `posts or []`
PostsOrEmpty(a) == IF NotPosts(a) THEN <<>> ELSE a[1]

\* a variant of the enumeration that steps over every other post
NextIndexSkips(index) == index + 2

\* `for index, post in enumerate(posts)`: the index after index
NextIndex(index) == index + 1

\* classify_jobs: the field it reads, the prompt and the schema it gives to
\* inference, and the field it writes
classify_jobs ==
    [ input |-> "content", prompt |-> PROMPT_HIRING_POST,
      format |-> "HiringPost", output |-> "hiring_post" ]

\* a variant of classify_names that writes its result to hiring_post
classify_names_clobbers ==
    [ input |-> "profile_name", prompt |-> PROMPT_NAMES_CLASSIFICATION,
      format |-> "NamesClassification", output |-> "hiring_post" ]

\* classify_names, likewise
classify_names ==
    [ input |-> "profile_name", prompt |-> PROMPT_NAMES_CLASSIFICATION,
      format |-> "NamesClassification", output |-> "names_classification" ]

\* the pass of that name
Pass(name) == IF name = "classify_jobs" THEN classify_jobs ELSE classify_names

-----------------------------------------------------------------------------
(* main.py: the handlers of run_pipeline and the release of the browser *)

\* the classes of the exceptions the model raises that derive from Exception
ExceptionClasses ==
    {"ValueError", "ConnectionError", "ValidationError", "WebDriverException"}

\* a variant of the iteration-level handler that catches ValueError alone
IterationCatchesValueError(e) == e = "ValueError"

\* `except Exception as e` of the iteration (KeyboardInterrupt and SystemExit
\* derive from BaseException and pass it)
IterationCatches(e) == e \in ExceptionClasses

\* `except KeyboardInterrupt` of the loop
OuterCatches(e) == e = "KeyboardInterrupt"

\* the control points inside `try:` ... `except KeyboardInterrupt:`
InTry == {"loop", "scrape", "classify", "save", "iter_raise", "wait"}

\* the control points of the construction of the pipeline and of the
\* statement between it and the `try:`
BeforeTry == {"install", "pull", "setup_driver", "login", "navigate", "interval"}

\* a variant of _pull_model that logs the failure of the pull and returns
pull_model_continues(returncode) ==
    [ready |-> returncode = 0, exits |-> FALSE]

\* OllamaModelSetup._pull_model on the return code of `ollama pull`:
\* whether the model is there, and whether sys.exit(1) is called
pull_model(returncode) ==
    [ready |-> returncode = 0, exits |-> returncode # 0]

\* a variant of the loop of classify_jobs that returns after its first turn
LoopDoneAfterFirst(index, ps) == index > 1

\* the loop of classify_jobs is over: enumerate(posts) is exhausted
LoopDone(index, ps) == index > Len(ps)

\* a variant of the handler placed around the classification alone, after
\* which the iteration goes on to save the batch
ResumeAtSave == "save"

\* where control goes once `except Exception` has logged the error: past
\* the body of the iteration, to the wait before the next one
ResumeAfterExcept == "wait"

\* a variant of the test that takes every list for one with posts
HasPostsAlways(ps) == TRUE

\* `if posts:` of the iteration: the list scrape_jobs returned is not empty
HasPosts(ps) == ps # <<>>

\* a variant of close that leaves the driver running
close_keeps_driver(d) == d

\* LinkedInJobScraper.close, on the state of the driver
close(d) == IF d = "open" THEN "quit" ELSE d

-----------------------------------------------------------------------------
(* Bounds and input sets *)

MaxFrags == 2
MaxElems == 3

JobText == "We are hiring! Send your resume"
OtherText == "Lovely lunch today"

El(text, title, urn, broken) ==
    [text |-> text, title |-> title, urn |-> urn, broken |-> broken]

RawElements ==
    { El(JobText, "Ann Lee\nCTO", "urn:li:activity:1", FALSE),
      El(" " \o OtherText \o "\n", " Bo ", "urn:li:activity:1", FALSE),
      El(OtherText, "Bo", "urn:li:activity:2", FALSE),
      El("  ", "Cy", "urn:li:activity:2", FALSE),
      El(JobText, "Cy", "", FALSE),
      El(JobText, "Cy", "urn:li:activity:2", TRUE) }

Pages == UNION { [1..n -> RawElements] : n \in 0..MaxElems }

MaxBatch == 2

Url(n) == LINKEDIN_POST_BASE_URL \o "urn:li:activity:" \o n

Post(text, url, name, hp) ==
    [content |-> text, url |-> url, profile_name |-> name, hiring_post |-> hp]

\* classified records as run_pipeline hands them to the sink
SinkRecords ==
    { Post(JobText, Url("1"), "Ann Lee", 1),
      Post(OtherText, Url("2"), "Bo", 0),
      Post(JobText, Url("3"), "NA", 1),
      Post("N/A", Url("4"), "", 0) }

Batches == UNION { [1..n -> SinkRecords] : n \in 0..MaxBatch }

MaxIter == 2
MaxFeed == 2
MaxPosts == 2

\* a scraped record: content and url are not empty, the name may be
Scraped(text, url, name) == [content |-> text, url |-> url, profile_name |-> name]

ScrapedRecords ==
    { Scraped(JobText, Url("1"), "Ann Lee"),
      Scraped(OtherText, Url("2"), "Bo"),
      Scraped(JobText, Url("3"), "") }

\* what classify_jobs and classify_names are called with: None or a list
PostLists ==
    {<<>>} \cup { <<l>> : l \in UNION { [1..n -> ScrapedRecords] : n \in 0..MaxPosts } }

\* the passes run on one list, each on what the one before returned
Plans ==
    { <<"classify_jobs">>, <<"classify_names">>,
      <<"classify_names", "classify_jobs">>,
      <<"classify_jobs", "classify_names">> }

\* what inference is called with
InferenceArgs ==
    [ input : {<<>>, <<"">>, <<JobText>>, <<"Bo">>},
      prompt : {<<>>, <<"">>, <<PROMPT_HIRING_POST>>, <<PROMPT_NAMES_CLASSIFICATION>>},
      format : {<<>>, <<"HiringPost">>, <<"NamesClassification">>} ]

\* the elements the search results page shows in the pipeline runs
FeedElements ==
    { El(JobText, "Ann Lee\nCTO", "urn:li:activity:1", FALSE),
      El(OtherText, "Bo", "urn:li:activity:2", FALSE) }

FeedPages == UNION { [1..n -> FeedElements] : n \in 0..MaxFeed }

Fragments ==
    { "hiring ", "job ", "position ", "role ", "apply ", "opportunity ",
      "qualifications ", "qualification ", "requirement ",
      "experience required ", "resume ", "cv ", "send ", "dm ",
      "3+ ", "3 + ", "years ", "year of experience ", "hello ",
      "RESUME ", "HIRING " }

RECURSIVE Concat(_)
Concat(fs) == IF fs = <<>> THEN "" ELSE Head(fs) \o Concat(Tail(fs))

Contents ==
    { Concat(fs) : fs \in UNION { [1..n -> Fragments] : n \in 0..MaxFrags } }

\* fragments in several cases, some with letters outside ASCII
CaseFragments ==
    { "hiring ", "HIRING ", "H#R#NG ", "resume ", "Resume ", "RESUME ",
      "re$ume ", "po$ition ", "cv ", "hello " }

CaseContents ==
    { Concat(fs) : fs \in UNION { [1..n -> CaseFragments] : n \in 0..MaxFrags } }

-----------------------------------------------------------------------------
(* The filter on its own: one call of is_job_post on a content string *)

PipelineIdle ==
    /\ iteration = 0
    /\ iter_status = "none"
    /\ idx = 0
    /\ exc = "none"
    /\ interrupted_at = "none"
    /\ driver = "none"
    /\ model_ready = FALSE
    /\ login_ok = FALSE
    /\ nav_ok = FALSE
    /\ saves = 0

CallIdle ==
    /\ args = <<>>
    /\ ret = <<>>
    /\ calls = <<>>
    /\ slept = 0
    /\ plan = <<>>

FilterIdle == content = "" /\ result = "none" /\ stage2 = FALSE
ScrapeIdle == elements = <<>> /\ posts = <<>> /\ scrape_error = FALSE
SinkIdle == store = <<>> /\ returned = <<>> /\ io_error = FALSE /\ save_args = <<>>

InitFilter ==
    /\ pc = "filter_call"
    /\ content \in Contents
    /\ result = "none"
    /\ stage2 = FALSE
    /\ ScrapeIdle
    /\ SinkIdle
    /\ PipelineIdle
    /\ CallIdle

CallIsJobPost ==
    /\ pc = "filter_call"
    /\ LET run == is_job_post_run(content) IN
          /\ result' = run.ret
          /\ stage2' = run.stage2
    /\ pc' = "filter_done"
    /\ UNCHANGED <<content, scrapeVars, sinkVars, save_args, sessionVars, loopVars,
                   callVars>>

vars == <<pc, filterVars, scrapeVars, sinkVars, save_args, sessionVars, loopVars,
         callVars>>

NextFilter == CallIsJobPost

SpecFilter == InitFilter /\ [][NextFilter]_vars

\* the filter on texts in several cases
InitCase ==
    /\ pc = "filter_call"
    /\ content \in CaseContents
    /\ result = "none"
    /\ stage2 = FALSE
    /\ ScrapeIdle
    /\ SinkIdle
    /\ PipelineIdle
    /\ CallIdle

SpecCase == InitCase /\ [][NextFilter]_vars

-----------------------------------------------------------------------------
(* One scrape cycle on its own: one call of scrape_posts on a page *)

InitScrape ==
    /\ pc = "scrape_call"
    /\ elements \in Pages
    /\ posts = <<>>
    /\ scrape_error = FALSE
    /\ FilterIdle
    /\ SinkIdle
    /\ PipelineIdle
    /\ CallIdle

CallScrapePosts ==
    /\ pc = "scrape_call"
    /\ \E raises \in BOOLEAN :
          /\ posts' = scrape_posts(elements, raises)
          /\ scrape_error' = raises
    /\ pc' = "scrape_done"
    /\ UNCHANGED <<elements, filterVars, sinkVars, save_args, sessionVars, loopVars,
                   callVars>>

NextScrape == CallScrapePosts

SpecScrape == InitScrape /\ [][NextScrape]_vars

-----------------------------------------------------------------------------
(* The sink on its own: two successive calls of save_posts_to_csv, the      *)
(* first on a store that does not exist                                     *)

InitSave ==
    /\ pc = "save_1"
    /\ save_args \in Batches \X Batches
    /\ store = <<>>
    /\ returned = <<>>
    /\ io_error = FALSE
    /\ FilterIdle
    /\ ScrapeIdle
    /\ PipelineIdle
    /\ CallIdle

CallSave ==
    /\ pc \in {"save_1", "save_2"}
    /\ LET ps == IF pc = "save_1" THEN save_args[1] ELSE save_args[2] IN
       \E io \in IoOutcomes, cut \in WriteCuts(ps, store) :
          LET r == save_posts_to_csv(ps, store, io, cut) IN
            /\ posts' = ps
            /\ store' = r.store
            /\ returned' = r.returned
            /\ io_error' = r.io_error
            /\ pc' = IF r.io_error THEN "save_failed"
                     ELSE IF pc = "save_1" THEN "save_2" ELSE "save_done"
    /\ UNCHANGED <<filterVars, elements, scrape_error, save_args, sessionVars, loopVars,
                   callVars>>

NextSave == CallSave

SpecSave == InitSave /\ [][NextSave]_vars

-----------------------------------------------------------------------------
(* The classification passes on their own: classify_jobs and classify_names *)
(* called one after the other on a list, as run_pipeline chains them        *)

InitClassify ==
    /\ pc = "pass_enter"
    /\ \E a \in PostLists, pl \in Plans :
          /\ args = [posts |-> a, plan |-> pl]
          /\ plan = pl
          /\ posts = PostsOrEmpty(a)
    /\ ret = <<>>
    /\ calls = <<>>
    /\ slept = 0
    /\ elements = <<>>
    /\ scrape_error = FALSE
    /\ FilterIdle
    /\ SinkIdle
    /\ PipelineIdle

\* what the pass entered now is called with: the argument of the first
\* pass, then what the pass before returned
PassArg == IF ret = <<>> THEN args.posts ELSE ret

\* what follows the return of a pass
AfterReturn == IF Tail(plan) = <<>> THEN "pass_done" ELSE "pass_enter"

\* the head of a pass: `if not posts: return posts or []`, else
\* time.sleep(10) and the loop is entered
ClassifyEnter ==
    /\ pc = "pass_enter"
    /\ IF NotPosts(PassArg)
       THEN /\ ret' = <<PostsOrEmpty(PassArg)>>
            /\ plan' = Tail(plan)
            /\ pc' = AfterReturn
            /\ UNCHANGED <<posts, slept, idx>>
       ELSE /\ slept' = slept + 1
            /\ posts' = PassArg[1]
            /\ idx' = 1
            /\ pc' = IF Len(PassArg[1]) = 0 THEN "pass_return" ELSE "pass_call"
            /\ UNCHANGED <<ret, plan>>
    /\ UNCHANGED <<filterVars, elements, scrape_error, sinkVars, save_args,
                   sessionVars, iteration, iter_status, exc, interrupted_at,
                   saves, args, calls>>

\* result = self.ollama_model_setup.inference(input=post[...], prompt=prompt,
\* format=...): the call returns or raises out of the pass
ClassifyCall ==
    /\ pc = "pass_call"
    /\ \E reply \in ModelReplies :
          LET p == Pass(Head(plan))
              r == inference(<<posts[idx][p.input]>>, <<p.prompt>>,
                             <<p.format>>, reply)
          IN /\ calls' = Append(calls,
                     [ pass |-> Head(plan), index |-> idx,
                       input |-> posts[idx][p.input], prompt |-> p.prompt,
                       format |-> p.format, raises |-> r.raises,
                       sent |-> r.sent, classification |-> r.classification ])
             /\ IF r.raises # "none"
                THEN exc' = r.raises /\ pc' = "pass_raised"
                ELSE exc' = exc /\ pc' = "pass_write"
    /\ UNCHANGED <<filterVars, scrapeVars, sinkVars, save_args, sessionVars,
                   iteration, iter_status, idx, interrupted_at, saves,
                   args, ret, slept, plan>>

\* posts[index][...] = result.classification, and the loop goes on
ClassifyWrite ==
    /\ pc = "pass_write"
    /\ posts' = [posts EXCEPT ![idx] =
                    SetField(posts[idx], Pass(Head(plan)).output,
                             calls[Len(calls)].classification)]
    /\ idx' = NextIndex(idx)
    /\ pc' = IF NextIndex(idx) > Len(posts) THEN "pass_return" ELSE "pass_call"
    /\ UNCHANGED <<filterVars, elements, scrape_error, sinkVars, save_args,
                   sessionVars, iteration, iter_status, exc, interrupted_at,
                   saves, callVars>>

\* `return posts`
ClassifyReturn ==
    /\ pc = "pass_return"
    /\ ret' = <<posts>>
    /\ plan' = Tail(plan)
    /\ pc' = AfterReturn
    /\ UNCHANGED <<filterVars, scrapeVars, sinkVars, save_args, sessionVars,
                   loopVars, args, calls, slept>>

NextClassify ==
    \/ ClassifyEnter
    \/ ClassifyCall
    \/ ClassifyWrite
    \/ ClassifyReturn

SpecClassify == InitClassify /\ [][NextClassify]_vars

-----------------------------------------------------------------------------
(* The inference client on its own: one call of inference *)

InitInference ==
    /\ pc = "inference_call"
    /\ args \in InferenceArgs
    /\ ret = <<>>
    /\ calls = <<>>
    /\ slept = 0
    /\ plan = <<>>
    /\ FilterIdle
    /\ ScrapeIdle
    /\ SinkIdle
    /\ PipelineIdle

CallInference ==
    /\ pc = "inference_call"
    /\ \E reply \in ModelReplies :
          LET r == inference(args.input, args.prompt, args.format, reply)
          IN /\ calls' = Append(calls,
                     [ raises |-> r.raises, sent |-> r.sent,
                       classification |-> r.classification ])
             /\ IF r.raises # "none"
                THEN /\ exc' = r.raises
                     /\ ret' = ret
                     /\ pc' = "inference_raised"
                ELSE /\ exc' = exc
                     /\ ret' = <<r.classification>>
                     /\ pc' = "inference_returned"
    /\ UNCHANGED <<filterVars, scrapeVars, sinkVars, save_args, sessionVars,
                   iteration, iter_status, idx, interrupted_at, saves,
                   args, slept, plan>>

NextInference == CallInference

SpecInference == InitInference /\ [][NextInference]_vars

-----------------------------------------------------------------------------
(* run_pipeline: the construction of ScrapeAndClassify, the loop, the       *)
(* handlers and the interrupt                                               *)

Init ==
    /\ pc = "install"
    /\ FilterIdle
    /\ ScrapeIdle
    /\ SinkIdle
    /\ PipelineIdle
    /\ CallIdle

\* OllamaModelSetup._install_ollama: returns, or ends the process
\* (sys.exit(1), OSError, CalledProcessError)
InstallOllama ==
    /\ pc = "install"
    /\ \E ok \in BOOLEAN :
          IF ok THEN pc' = "pull" /\ exc' = exc
          ELSE pc' = "exited" /\ exc' = "SystemExit"
    /\ UNCHANGED <<filterVars, scrapeVars, sinkVars, save_args, sessionVars,
                   iteration, iter_status, idx, interrupted_at, saves,
                   callVars>>

\* OllamaModelSetup._pull_model: sys.exit(1) unless the pull returns 0
PullModel ==
    /\ pc = "pull"
    /\ \E returncode \in {0, 1} :
          LET r == pull_model(returncode) IN
            /\ model_ready' = r.ready
            /\ IF r.exits
               THEN pc' = "exited" /\ exc' = "SystemExit"
               ELSE pc' = "setup_driver" /\ exc' = exc
    /\ UNCHANGED <<filterVars, scrapeVars, sinkVars, save_args, driver, login_ok,
                   nav_ok, iteration, iter_status, idx, interrupted_at, saves,
                   callVars>>

\* LinkedInJobScraper.setup_driver, first step of _initialize
SetupDriver ==
    /\ pc = "setup_driver"
    /\ \E ok \in BOOLEAN :
          IF ok THEN driver' = "open" /\ pc' = "login" /\ exc' = exc
          ELSE driver' = driver /\ pc' = "exited" /\ exc' = "WebDriverException"
    /\ UNCHANGED <<filterVars, scrapeVars, sinkVars, save_args, model_ready,
                   login_ok, nav_ok, iteration, iter_status, idx, interrupted_at, saves,
                   callVars>>

\* self.login() in _initialize: the value returned is dropped
Login ==
    /\ pc = "login"
    /\ \E ok \in BOOLEAN : login_ok' = ok
    /\ pc' = "navigate"
    /\ UNCHANGED <<filterVars, scrapeVars, sinkVars, save_args, driver,
                   model_ready, nav_ok, loopVars, callVars>>

\* self.navigate_to_search() in _initialize: the value returned is dropped;
\* without a login the search bar is not there and the call returns False
NavigateToSearch ==
    /\ pc = "navigate"
    /\ \E ok \in BOOLEAN : (ok => login_ok) /\ nav_ok' = ok
    /\ pc' = "interval"
    /\ UNCHANGED <<filterVars, scrapeVars, sinkVars, save_args, driver,
                   model_ready, login_ok, loopVars, callVars>>

\* INTERVAL_SECONDS = int(interval_hours * 3600), then `try:` is entered;
\* interval_hours is a number that is not negative, as the command line's
\* default and help have it
ComputeInterval ==
    /\ pc = "interval"
    /\ pc' = "loop"
    /\ UNCHANGED <<filterVars, scrapeVars, sinkVars, save_args, sessionVars, loopVars,
                   callVars>>

\* `while True: iteration += 1`; the locals of the calls of the iteration
\* before are gone, run_pipeline's `posts` is kept until it is assigned again
IterStart ==
    /\ pc = "loop"
    /\ iteration < MaxIter
    /\ iteration' = iteration + 1
    /\ iter_status' = "running"
    /\ elements' = <<>>
    /\ scrape_error' = FALSE
    /\ io_error' = FALSE
    /\ idx' = 0
    /\ saves' = 0
    /\ pc' = "scrape"
    /\ UNCHANGED <<filterVars, posts, store, returned, save_args, sessionVars,
                   exc, interrupted_at, callVars>>

\* posts = pipeline.scrape_jobs(): scraper.run() refreshes the page (outside
\* any handler of the scraper) and calls scrape_posts; `if posts:` follows
ScrapeJobs ==
    /\ pc = "scrape"
    /\ \/ /\ exc' = "WebDriverException"
          /\ pc' = "iter_raise"
          /\ UNCHANGED <<scrapeVars, iter_status, idx>>
       \/ \E page \in FeedPages, raises \in BOOLEAN :
             LET got == scrape_posts(page, raises) IN
               /\ elements' = page
               /\ scrape_error' = raises
               /\ posts' = got
               /\ exc' = exc
               /\ IF HasPosts(got)
                  THEN iter_status' = iter_status /\ pc' = "classify" /\ idx' = 1
                  ELSE iter_status' = "empty" /\ pc' = "wait" /\ idx' = idx
    /\ UNCHANGED <<filterVars, sinkVars, save_args, sessionVars, iteration,
                   interrupted_at, saves, callVars>>

\* one turn of the loop of classify_jobs, or its return after the last post
ClassifyStep ==
    /\ pc = "classify"
    /\ IF LoopDone(idx, posts)
       THEN /\ pc' = "save"
            /\ UNCHANGED <<posts, idx, exc>>
       ELSE \E reply \in ModelReplies :
              LET r == inference(<<posts[idx].content>>, <<PROMPT_HIRING_POST>>,
                                 <<"HiringPost">>, reply)
              IN IF r.raises # "none"
                 THEN /\ exc' = r.raises
                      /\ pc' = "iter_raise"
                      /\ UNCHANGED <<posts, idx>>
                 ELSE /\ posts' = [posts EXCEPT ![idx] =
                                     SetField(posts[idx], "hiring_post", r.classification)]
                      /\ idx' = idx + 1
                      /\ pc' = "classify"
                      /\ exc' = exc
    /\ UNCHANGED <<filterVars, elements, scrape_error, sinkVars, save_args,
                   sessionVars, iteration, iter_status, interrupted_at, saves,
                   callVars>>

\* pipeline.save_posts_to_csv(posts=posts), whose value is dropped, and the
\* log of the success
SavePosts ==
    /\ pc = "save"
    /\ \E io \in IoOutcomes, cut \in WriteCuts(posts, store) :
          LET r == save_posts_to_csv(posts, store, io, cut) IN
            /\ store' = r.store
            /\ returned' = returned
            /\ io_error' = r.io_error
    /\ saves' = saves + 1
    /\ iter_status' = "ok"
    /\ pc' = "wait"
    /\ UNCHANGED <<filterVars, scrapeVars, save_args, sessionVars, iteration,
                   idx, exc, interrupted_at, callVars>>

\* an exception leaves the body of the iteration: `except Exception` logs it
\* ("Error during iteration", with the exception) and the loop goes on;
\* anything else goes on to `finally`
IterationExcept ==
    /\ pc = "iter_raise"
    /\ IF IterationCatches(exc)
       THEN /\ iter_status' = "failed:" \o exc
            /\ exc' = "none"
            /\ pc' = ResumeAfterExcept
       ELSE iter_status' = iter_status /\ exc' = exc /\ pc' = "finally"
    /\ UNCHANGED <<filterVars, scrapeVars, sinkVars, save_args, sessionVars,
                   iteration, idx, interrupted_at, saves, callVars>>

\* the chunks of time.sleep between two iterations
Wait ==
    /\ pc = "wait"
    /\ pc' = "loop"
    /\ UNCHANGED <<filterVars, scrapeVars, sinkVars, save_args, sessionVars, loopVars,
                   callVars>>

\* SIGINT: KeyboardInterrupt is raised at the current control point
Interrupt ==
    /\ pc \in InTry \cup BeforeTry
    /\ interrupted_at = "none"
    /\ interrupted_at' = pc
    /\ IF pc \in InTry
       THEN /\ pc' = "finally"
            /\ exc' = IF OuterCatches("KeyboardInterrupt") THEN "none"
                      ELSE "KeyboardInterrupt"
       ELSE /\ pc' = "exited"
            /\ exc' = "KeyboardInterrupt"
    /\ UNCHANGED <<filterVars, scrapeVars, sinkVars, save_args, sessionVars,
                   iteration, iter_status, idx, saves, callVars>>

\* `finally: pipeline.shutdown()`, then run_pipeline returns or the
\* exception still propagating ends the process
Shutdown ==
    /\ pc = "finally"
    /\ driver' = close(driver)
    /\ pc' = IF exc = "none" THEN "returned" ELSE "exited"
    /\ UNCHANGED <<filterVars, scrapeVars, sinkVars, save_args, model_ready,
                   login_ok, nav_ok, loopVars, callVars>>

Next ==
    \/ InstallOllama
    \/ PullModel
    \/ SetupDriver
    \/ Login
    \/ NavigateToSearch
    \/ ComputeInterval
    \/ IterStart
    \/ ScrapeJobs
    \/ ClassifyStep
    \/ SavePosts
    \/ IterationExcept
    \/ Wait
    \/ Interrupt
    \/ Shutdown

Spec == Init /\ [][Next]_vars

-----------------------------------------------------------------------------
(* Claims on the filter *)

\* no keyword occurs in c at any position, letters compared without case
NoKeyword(c) ==
    LET f == StrFold(c) IN
    \A k \in 1..Len(JOB_KEYWORDS) :
        \A i \in 1..Len(f) : ~StartsAt(f, i, JOB_KEYWORDS[k])

\* the seven indicators (a)-(g), each as a predicate of its own
IndicatorsHolding(c) ==
    LET low == StrLower(c) IN
      (IF has_requirements(c) THEN {"requirements"} ELSE {})
      \cup (IF has_experience(c) THEN {"experience"} ELSE {})
      \cup (IF has_apply_action(c) THEN {"apply_action"} ELSE {})
      \cup { w \in {"resume", "cv", "position", "role"} : Contains(low, w) }

\* C1: a content string in which none of the 17 keywords occurs (the empty
\* string included) makes is_job_post return false, however many of the
\* indicators (a)-(g) it would satisfy, and the indicators are not evaluated.
C1_GateShortCircuit ==
    (pc = "filter_done" /\ NoKeyword(content))
        => (result = FALSE /\ stage2 = FALSE)

\* a call on a text without keyword that satisfies two indicators
C1_Witness ==
    /\ pc = "filter_done"
    /\ NoKeyword(content)
    /\ Cardinality(IndicatorsHolding(content)) >= 2
    /\ result = FALSE

\* C2: on a content string that matches the keyword gate, is_job_post returns
\* true exactly when at least 2 of the seven indicators hold, each indicator
\* counting once: false with 0 or 1, true with exactly 2.
C2_TwoIndicators ==
    (pc = "filter_done" /\ ~NoKeyword(content))
        => (result = (Cardinality(IndicatorsHolding(content)) >= 2))

\* a call on a text that matches the gate with exactly two indicators
C2_Witness ==
    /\ pc = "filter_done"
    /\ ~NoKeyword(content)
    /\ Cardinality(IndicatorsHolding(content)) = 2
    /\ result = TRUE

\* the text with the case of its letters changed: all raised, all lowered
CaseVariants(c) == {StrUpper(c), StrLower(c)}

\* C17: is_job_post is case-insensitive: changing the case of the letters
\* of a content string changes neither the keyword gate, nor any of the
\* seven indicators, nor the result.
C17_CaseInsensitive ==
    pc = "filter_done" =>
        \A v \in CaseVariants(content) :
            /\ job_pattern_search(v) = job_pattern_search(content)
            /\ IndicatorsHolding(v) = IndicatorsHolding(content)
            /\ is_job_post(v) = result

-----------------------------------------------------------------------------
(* Claims on the scrape cycle *)

\* the candidates of the cycle, in element order
Candidates == [ i \in 1..Len(elements) |-> extract_post_details(elements[i]) ]

\* the elements whose candidate exists and whose url no earlier candidate has
FirstOccurrences ==
    { i \in 1..Len(elements) :
        /\ Candidates[i] # <<>>
        /\ \A j \in 1..(i - 1) :
              Candidates[j] = <<>> \/ Candidates[j][1].url # Candidates[i][1].url }

\* C3: the list one call of scrape_posts returns has pairwise distinct urls;
\* of several candidates with one url only the first in element order is
\* kept, and the records kept are in the order of their elements.
C3_DedupFirstWins ==
    (pc = "scrape_done" /\ ~scrape_error) =>
        /\ \A a, b \in 1..Len(posts) : a # b => posts[a].url # posts[b].url
        /\ \/ posts = <<>> /\ FirstOccurrences = {}
           \/ \E f \in [1..Len(posts) -> FirstOccurrences] :
                 /\ \A a, b \in 1..Len(posts) : a < b => f[a] < f[b]
                 /\ \A a \in 1..Len(posts) : posts[a] = Candidates[f[a]][1]
                 /\ \A i \in FirstOccurrences : \E a \in 1..Len(posts) : f[a] = i

\* a cycle that met a url twice, with different content, and kept the first
C3_Witness ==
    /\ pc = "scrape_done"
    /\ ~scrape_error
    /\ Len(posts) >= 2
    /\ \E i, j \in 1..Len(elements) :
          /\ i < j
          /\ i \in FirstOccurrences
          /\ Candidates[j] # <<>>
          /\ Candidates[j][1].url = Candidates[i][1].url
          /\ Candidates[j][1].content # Candidates[i][1].content
          /\ \E a \in 1..Len(posts) : posts[a] = Candidates[i][1]

\* the extraction of a raw element fails: a lookup on it raises, its content
\* is empty once stripped, or it has no data-urn
ExtractionFails(el) == el.broken \/ Strip(el.text) = "" \/ el.urn = ""

\* C14: an element whose extraction fails is dropped and it alone: the cycle
\* goes on, every element whose extraction succeeds has its url in the list
\* returned, and every record returned comes from such an element and has a
\* content and a url that are not empty.
C14_FailedExtractionDropsElementAlone ==
    (pc = "scrape_done" /\ ~scrape_error) =>
        /\ \A a \in 1..Len(posts) :
              /\ posts[a].content # ""
              /\ posts[a].url # ""
              /\ \E i \in 1..Len(elements) :
                    /\ ~ExtractionFails(elements[i])
                    /\ posts[a].content = Strip(elements[i].text)
                    /\ posts[a].url = LINKEDIN_POST_BASE_URL \o elements[i].urn
        /\ \A i \in 1..Len(elements) :
              ~ExtractionFails(elements[i]) =>
                  \E a \in 1..Len(posts) :
                      posts[a].url = LINKEDIN_POST_BASE_URL \o elements[i].urn

\* a cycle whose first element raised, whose second had no content or no
\* data-urn, and whose third was extracted and returned
C14_Witness ==
    /\ pc = "scrape_done"
    /\ ~scrape_error
    /\ Len(elements) = 3
    /\ elements[1].broken
    /\ ExtractionFails(elements[2]) /\ ~elements[2].broken
    /\ ~ExtractionFails(elements[3])
    /\ Len(posts) = 1
    /\ posts[1].url = LINKEDIN_POST_BASE_URL \o elements[3].urn

-----------------------------------------------------------------------------
(* Claims on the sink *)

StoreRows == IF store = <<>> THEN <<>> ELSE store[1]

\* C9: a call of save_posts_to_csv that meets an I/O error does not raise,
\* returns the batch it was about to write, and leaves the store exactly as
\* it was before the call.
C9_FailedSaveLeavesStore ==
    [][ (pc \in {"save_1", "save_2"} /\ pc' # pc /\ io_error')
            => (store' = store /\ returned' = DataFrame(posts')) ]_vars

\* C10: N records written to a store that does not exist and then M more
\* leave a store of exactly N+M records: the N written first, unchanged and
\* in order, then the M new ones.
C10_AppendKeepsFirst ==
    pc = "save_done" =>
        LET first == to_csv(DataFrame(save_args[1]))
            second == to_csv(DataFrame(save_args[2]))
        IN /\ Len(StoreRows) = Len(save_args[1]) + Len(save_args[2])
           /\ SubSeq(StoreRows, 1, Len(first)) = first
           /\ SubSeq(StoreRows, Len(first) + 1, Len(StoreRows)) = second

-----------------------------------------------------------------------------
(* Claims on the pipeline *)

\* the exceptions a call of inference raises
InferenceFailures == {"ValueError", "ConnectionError", "ValidationError"}

\* the session was set up: the model is pulled, the browser logged in and
\* on the search results
SessionUp == model_ready /\ login_ok /\ nav_ok

\* C4: every candidate run_pipeline hands to classify_jobs, and every record
\* it persists, has passed is_relevant_post; a post that is_job_post rejects
\* reaches neither the inference client nor the store.  Stated for the runs
\* whose session was set up.
C4_OnlyRelevantClassified ==
    SessionUp =>
        /\ pc \in {"classify", "save"} =>
              \A i \in 1..Len(posts) : is_relevant_post(posts[i])
        /\ \A k \in 1..Len(StoreRows) :
              is_job_post(StrLower(StoreRows[k].content))

\* C5: an inference call that fails in classify_jobs is not caught there; the
\* handler of the iteration logs it and ends the iteration as failed, the
\* loop waits and starts the next iteration, the store and the browser
\* session are untouched and the process does not end on that exception.
C5_InferenceFailureFailsIteration ==
    /\ [][ (pc = "classify" /\ exc' \in InferenceFailures)
              => (pc' = "iter_raise" /\ posts' = posts /\ store' = store) ]_vars
    /\ [][ (pc = "iter_raise" /\ exc \in InferenceFailures
                /\ interrupted_at' = interrupted_at)
              => /\ pc' = "wait"
                 /\ iter_status' = "failed:" \o exc
                 /\ exc' = "none"
                 /\ store' = store
                 /\ driver' = driver ]_vars
    /\ [][ (pc = "wait" /\ interrupted_at' = interrupted_at) => pc' = "loop" ]_vars
    /\ [][ (pc = "loop" /\ interrupted_at' = interrupted_at)
              => (pc' = "scrape" /\ iteration' = iteration + 1) ]_vars
    /\ [](pc = "exited" => exc \notin InferenceFailures)

\* an iteration that failed on the inference call of its second post, the
\* first one classified, and is waiting for the next iteration
C5_Witness ==
    /\ pc = "wait"
    /\ iter_status \in {"failed:ConnectionError", "failed:ValidationError"}
    /\ idx = 2
    /\ "hiring_post" \in DOMAIN posts[1]
    /\ iteration < MaxIter
    /\ driver = "open"

\* the row the sink writes for a classified post
CsvRow(post) == to_csv(DataFrame(<<post>>))[1]

\* C6: when the interrupt arrives during an iteration, every post the
\* iteration had classified is in the store when run_pipeline has shut down.
\* Stated for the runs whose session was set up.
C6_InterruptFlushesClassified ==
    (SessionUp /\ pc = "returned" /\ interrupted_at \in {"classify", "save"}) =>
        \A i \in 1..Len(posts) :
            "hiring_post" \in DOMAIN posts[i] =>
                \E k \in 1..Len(StoreRows) : StoreRows[k] = CsvRow(posts[i])

\* what an interrupt that is handled leaves: control in the shutdown or past
\* it, so that no iteration starts, no exception propagating, the shutdown
\* able to run, and the driver quit once run_pipeline has returned
ShutsDown ==
    /\ pc \in {"finally", "returned"}
    /\ exc = "none"
    /\ pc = "finally" => ENABLED Shutdown
    /\ pc = "returned" => driver = "quit"

\* C7, as amended: an interrupt that arrives at any point after run_pipeline
\* has entered its `try` (during scrape, classification, save or the wait
\* between iterations) aborts the cycle: no further iteration starts, the
\* driver is quit and run_pipeline returns.
C7_InterruptShutsDown == interrupted_at \in InTry => ShutsDown

\* C7, as stated: an interrupt that arrives at any point after the pipeline
\* was constructed aborts the cycle, starts no further iteration, releases
\* the browser session and lets run_pipeline return.
C7_InterruptAfterConstruction ==
    interrupted_at \in InTry \cup {"interval"} => ShutsDown

\* a run interrupted in the middle of a classification pass, shut down
C7_Witness ==
    /\ interrupted_at = "classify"
    /\ idx = 2
    /\ Len(posts) = 2
    /\ pc = "returned"
    /\ driver = "quit"

\* C8: when the model pull, the login or the navigation to the search
\* results fails, no scrape, classification or persistence step is executed
\* with that session.
C8_NoPipelineOnFailedSetup ==
    pc \in {"classify", "save", "wait", "iter_raise"} =>
        (model_ready /\ login_ok /\ nav_ok)

-----------------------------------------------------------------------------
(* Claims on the classification passes *)

\* the passes that have returned, in order
PassesReturned == SubSeq(args.plan, 1, Len(args.plan) - Len(plan))

\* the calls of inference classify_jobs has made, in order
JobsCalls == SelectSeq(calls, LAMBDA c : c.pass = "classify_jobs")

\* classify_jobs, called first on a list that is not empty, has returned
JobsReturned ==
    /\ pc \in {"pass_enter", "pass_done"}
    /\ PassesReturned = <<"classify_jobs">>
    /\ ~NotPosts(args.posts)

\* C11: when every inference call succeeds on a list that is not empty,
\* classify_jobs returns that list, as long and in the same order, every
\* record with a hiring_post field equal to the 0/1 classification the
\* inference call on that record's content returned.
C11_ClassifyJobsAnnotatesInOrder ==
    JobsReturned =>
        /\ Len(ret[1]) = Len(args.posts[1])
        /\ \A i \in 1..Len(ret[1]) :
              /\ "hiring_post" \in DOMAIN ret[1][i]
              /\ ret[1][i].hiring_post \in {0, 1}
              /\ ret[1][i] = SetField(args.posts[1][i], "hiring_post",
                                      ret[1][i].hiring_post)
              /\ \E k \in 1..Len(calls) :
                    /\ calls[k].pass = "classify_jobs"
                    /\ calls[k].index = i
                    /\ calls[k].input = args.posts[1][i].content
                    /\ calls[k].raises = "none"
                    /\ calls[k].classification = ret[1][i].hiring_post

\* classify_jobs has returned a list of two records, the first classified
\* 1 and the second 0
C11_Witness ==
    /\ JobsReturned
    /\ pc = "pass_done"
    /\ Len(ret[1]) = 2
    /\ ret[1][1].content # ret[1][2].content
    /\ ret[1][1].hiring_post = 1
    /\ ret[1][2].hiring_post = 0

\* C12: classify_jobs called with None or with an empty list returns an
\* empty list, calls inference not once, does not sleep and does not raise.
C12_EmptyListNoInference ==
    (NotPosts(args.posts) /\ args.plan[1] = "classify_jobs") =>
        /\ calls = <<>>
        /\ slept = 0
        /\ exc = "none"
        /\ pc \in {"pass_enter", "pass_done"}
        /\ PassesReturned # <<>> => ret = << <<>> >>

\* classify_jobs was called without a list and has returned
C12_Witness ==
    /\ args.posts = <<>>
    /\ args.plan = <<"classify_jobs">>
    /\ pc = "pass_done"
    /\ ret = << <<>> >>

\* the call of inference that pass `name` made for post i gave the value v
\* on the field `input` of the post as the pass was given it
CallGave(name, i, v) ==
    \E k \in 1..Len(calls) :
        /\ calls[k].pass = name
        /\ calls[k].index = i
        /\ calls[k].input = args.posts[1][i][Pass(name).input]
        /\ calls[k].prompt = Pass(name).prompt
        /\ calls[k].format = Pass(name).format
        /\ calls[k].raises = "none"
        /\ calls[k].classification = v

\* the step of pass `name` leaves every field but `field` as it was
WritesOnly(name, field) ==
    (pc \in {"pass_enter", "pass_call", "pass_write", "pass_return"}
        /\ plan # <<>> /\ Head(plan) = name) =>
        /\ Len(posts') = Len(posts)
        /\ \A i \in 1..Len(posts) :
              /\ DOMAIN posts'[i] \subseteq DOMAIN posts[i] \cup {field}
              /\ \A f \in DOMAIN posts[i] \ {field} :
                    f \in DOMAIN posts'[i] /\ posts'[i][f] = posts[i][f]

\* C16: classify_names writes the names_classification field of the posts
\* and nothing else, classify_jobs the hiring_post field and nothing else,
\* and whether classify_names ran before classify_jobs, after it or not at
\* all, the hiring_post of a post is what the inference call of
\* classify_jobs on that post's content returned.
C16_PassesIndependent ==
    /\ [][WritesOnly("classify_names", "names_classification")]_vars
    /\ [][WritesOnly("classify_jobs", "hiring_post")]_vars
    /\ [](~NotPosts(args.posts) =>
            /\ Len(posts) = Len(args.posts[1])
            /\ \A i \in 1..Len(posts) :
                  /\ posts[i].content = args.posts[1][i].content
                  /\ posts[i].url = args.posts[1][i].url
                  /\ posts[i].profile_name = args.posts[1][i].profile_name
                  /\ "hiring_post" \in DOMAIN posts[i] =>
                        CallGave("classify_jobs", i, posts[i].hiring_post)
                  /\ "names_classification" \in DOMAIN posts[i] =>
                        CallGave("classify_names", i, posts[i].names_classification))

\* classify_jobs, then classify_names, have run on a list of two posts and
\* given the first post 1 for its content and 0 for its name
C16_Witness ==
    /\ args.plan = <<"classify_jobs", "classify_names">>
    /\ pc = "pass_done"
    /\ Len(posts) = 2
    /\ posts[1].hiring_post = 1
    /\ posts[1].names_classification = 0
    /\ posts[2].hiring_post = 0

\* classify_jobs alone is run, on a list that is not empty
JobsAlone == args.plan = <<"classify_jobs">> /\ ~NotPosts(args.posts)

\* C18: on a list that is not empty classify_jobs sleeps once, before its
\* first inference call, then calls inference once per post in the order of
\* the list, with the content of the post and the hiring prompt, no post
\* twice and none skipped, and has written the hiring_post of a post before
\* it makes the call for the next.
C18_CooldownThenOneCallPerPost ==
    /\ [](JobsAlone =>
            /\ slept = IF pc = "pass_enter" THEN 0 ELSE 1
            /\ \A k \in 1..Len(calls) :
                  /\ calls[k].pass = "classify_jobs"
                  /\ calls[k].index = k
                  /\ k <= Len(args.posts[1])
                  /\ calls[k].input = args.posts[1][k].content
                  /\ calls[k].prompt = PROMPT_HIRING_POST
                  /\ calls[k].format = "HiringPost"
            /\ pc \in {"pass_return", "pass_done"} =>
                  Len(calls) = Len(args.posts[1]))
    /\ [][(JobsAlone /\ Len(calls') > Len(calls)) =>
            /\ slept = 1
            /\ Len(calls') = Len(calls) + 1
            /\ \A j \in 1..Len(calls) : "hiring_post" \in DOMAIN posts[j]
            /\ \A j \in (Len(calls) + 1)..Len(posts) :
                  "hiring_post" \notin DOMAIN posts[j]]_vars

\* classify_jobs has slept, classified the first of two posts and is about
\* to make the call for the second
C18_Witness ==
    /\ JobsAlone
    /\ pc = "pass_call"
    /\ slept = 1
    /\ Len(posts) = 2
    /\ idx = 2
    /\ Len(calls) = 1
    /\ "hiring_post" \in DOMAIN posts[1]
    /\ "hiring_post" \notin DOMAIN posts[2]

-----------------------------------------------------------------------------
(* Claims on the inference client *)

\* an argument of the call is missing or empty
InvalidArguments ==
    NotArg(args.input) \/ NotArg(args.prompt) \/ NotArg(args.format)

\* C13: inference called with a missing or empty input, prompt or schema
\* raises ValueError before any message is sent to the model; the call is
\* made once and returns no result.
C13_InvalidArgumentsRaise ==
    (pc # "inference_call" /\ InvalidArguments) =>
        /\ pc = "inference_raised"
        /\ exc = "ValueError"
        /\ ret = <<>>
        /\ Len(calls) = 1
        /\ ~calls[1].sent
        /\ ~ENABLED CallInference

\* inference was called with an empty input, a prompt and a schema
C13_Witness ==
    /\ pc = "inference_raised"
    /\ args.input = <<"">>
    /\ ~NotArg(args.prompt)
    /\ ~NotArg(args.format)
    /\ exc = "ValueError"

-----------------------------------------------------------------------------
(* Claims on the pipeline: the iterations *)

\* what the iteration logged at its end is one of the three outcomes
IterationOutcomes ==
    {"ok", "empty"} \cup { "failed:" \o e : e \in ExceptionClasses }

\* C15, as stated: the pipeline runs iterations until it is interrupted and
\* every iteration, once at its end, has made exactly one append to the
\* store.  Stated for the runs whose session was set up.
C15_OneAppendPerIteration ==
    /\ pc \in {"finally", "returned"} => interrupted_at \in InTry
    /\ (SessionUp /\ pc = "wait") => saves = 1

\* C15, as amended: the pipeline runs iterations until it is interrupted, and
\* an iteration calls save_posts_to_csv at most once: once when its scrape
\* returned at least one post and every inference call succeeded, not at all
\* when the scrape returned no post or a step of the iteration failed.
C15_AtMostOneAppendPerIteration ==
    /\ pc \in {"finally", "returned"} => interrupted_at \in InTry
    /\ saves \in {0, 1}
    /\ saves = 1 => pc \in {"wait", "loop", "finally", "returned"}
    /\ pc = "wait" =>
          /\ iter_status \in IterationOutcomes
          /\ saves = IF iter_status = "ok" THEN 1 ELSE 0
          /\ iter_status = "ok" =>
                /\ posts # <<>>
                /\ \A i \in 1..Len(posts) : "hiring_post" \in DOMAIN posts[i]
          /\ iter_status = "empty" => posts = <<>>

\* a second iteration that saved its posts after a first one that had
\* nothing to save
C15_Witness ==
    /\ SessionUp
    /\ pc = "wait"
    /\ iteration = 2
    /\ saves = 1
    /\ ~io_error
    /\ posts # <<>>
    /\ Len(StoreRows) = Len(posts)

\* C19: the set of seen urls is empty at the start of every scrape cycle:
\* a cycle retains every url the page shows, whatever the cycles before it
\* retained and whatever the store holds, so that a url can be classified
\* and appended to the store in more than one iteration.
C19_SeenUrlsResetEachCycle ==
    [][(pc = "scrape" /\ pc' \in {"classify", "wait"} /\ ~scrape_error') =>
          \A i \in 1..Len(elements') :
              ~ExtractionFails(elements'[i]) =>
                  \E a \in 1..Len(posts') :
                      posts'[a].url = LINKEDIN_POST_BASE_URL \o elements'[i].urn]_vars

\* the second iteration has appended a url the first had appended
C19_Witness ==
    /\ pc = "wait"
    /\ iteration = 2
    /\ iter_status = "ok"
    /\ ~io_error
    /\ \E k, l \in 1..Len(StoreRows) :
          /\ k < l
          /\ StoreRows[k].url = StoreRows[l].url
          /\ \E a \in 1..Len(posts) : posts[a].url = StoreRows[l].url

\* C20: the model is ready before any inference call: the loop, and with it
\* every call of inference, is reached only by a client whose construction
\* went through the installation check and a pull that succeeded; a pull
\* that fails ends the process, and no inference call follows it.
C20_ModelReadyBeforeInference ==
    /\ pc \in InTry => model_ready
    /\ (\E i \in 1..Len(posts) : "hiring_post" \in DOMAIN posts[i]) => model_ready
    /\ (~model_ready /\ pc \notin {"install", "pull"}) =>
          /\ pc = "exited"
          /\ posts = <<>>
          /\ ~ENABLED ClassifyStep
          /\ ~ENABLED Next

\* an inference call has been made and answered, on a model that was pulled
C20_Witness ==
    /\ model_ready
    /\ pc = "classify"
    /\ idx = 2
    /\ "hiring_post" \in DOMAIN posts[1]

-----------------------------------------------------------------------------
(* Claims on the pipeline: what an iteration persists *)

\* the iteration ended on a failed inference call
InferenceFailed == iter_status \in { "failed:" \o e : e \in InferenceFailures }

\* C21: when the inference call for a post of the batch fails, nothing of
\* the iteration is persisted: save_posts_to_csv is not called and the store
\* stays as it was, and the hiring_post values written for the posts before
\* it go with the batch: the next batch starts from the scrape, unclassified.
C21_FailedBatchNotPersisted ==
    /\ [][(pc = "classify" /\ exc' \in InferenceFailures) =>
            (pc' = "iter_raise" /\ store' = store /\ saves' = saves)]_vars
    /\ [][(pc = "iter_raise" /\ exc \in InferenceFailures) =>
            (pc' \in {"wait", "finally"} /\ store' = store /\ saves' = saves)]_vars
    /\ [][store' # store => (pc = "save" /\ ~InferenceFailed)]_vars
    /\ [](InferenceFailed => (saves = 0 /\ pc # "save"))
    /\ [][(pc = "scrape" /\ pc' = "classify") =>
            \A i \in 1..Len(posts') : "hiring_post" \notin DOMAIN posts'[i]]_vars

\* the inference call for the second post of a batch failed after the first
\* post was classified, in a second iteration whose store holds what the
\* first iteration saved and no more
C21_Witness ==
    /\ pc = "wait"
    /\ InferenceFailed
    /\ iteration = 2
    /\ idx = 2
    /\ "hiring_post" \in DOMAIN posts[1]
    /\ "hiring_post" \notin DOMAIN posts[2]
    /\ saves = 0
    /\ Len(StoreRows) = 1

=============================================================================
